---------------------------- MODULE Spec2Model ----------------------------
(***************************************************************************)
(* Model of sharkfunctions_2.py: the column cleaning functions of the      *)
(* shark attack data set.  Every function of the file is a pure mapping of *)
(* a table or of one cell; the state is the value a caller is cleaning     *)
(* (cell) and the calls made on it so far (calls).                         *)
(*                                                                         *)
(* Python values are tagged records [t, v]:                                *)
(*   str    v is the sequence of the string's characters                   *)
(*   int    v is the integer                                               *)
(*   float  v is the number counted in halves (v = 35 is 17.5)             *)
(*   nan    numpy.nan,  None  Python's None                                *)
(*   df     v is the sequence of the table's rows                          *)
(*   raise  the call raised; v names the exception                         *)
(***************************************************************************)
EXTENDS Integers, Sequences, FiniteSets, TLC

VARIABLES cell, calls

vars == <<cell, calls>>

StrV(s)   == [t |-> "str", v |-> s]
IntV(n)   == [t |-> "int", v |-> n]
FloatV(h) == [t |-> "float", v |-> h]
NaN      == [t |-> "nan", v |-> 0]
None     == [t |-> "None", v |-> 0]
Raise(e) == [t |-> "raise", v |-> e]

IsInstanceStr(x) == x.t = "str"
IsInstanceInt(x) == x.t = "int"
\* pandas.isna of a scalar
IsNa(x) == x.t \in {"nan", "None"}

(***************************************************************************)
(* The str methods the functions use, on sequences of characters.          *)
(***************************************************************************)
UpperLetters ==
  <<"A","B","C","D","E","F","G","H","I","J","K","L","M",
    "N","O","P","Q","R","S","T","U","V","W","X","Y","Z">>
LowerLetters ==
  <<"a","b","c","d","e","f","g","h","i","j","k","l","m",
    "n","o","p","q","r","s","t","u","v","w","x","y","z">>
DigitChars == <<"0","1","2","3","4","5","6","7","8","9">>
Whitespace == {" ", "\t", "\n", "\r", "\f"}

Range(f) == {f[i] : i \in DOMAIN f}
IsUpperChar(c) == c \in Range(UpperLetters)
IsLowerChar(c) == c \in Range(LowerLetters)
IsCasedChar(c) == IsUpperChar(c) \/ IsLowerChar(c)
LowerChar(c) ==
  IF IsUpperChar(c)
    THEN LowerLetters[CHOOSE i \in DOMAIN UpperLetters : UpperLetters[i] = c]
    ELSE c
UpperChar(c) ==
  IF IsLowerChar(c)
    THEN UpperLetters[CHOOSE i \in DOMAIN LowerLetters : LowerLetters[i] = c]
    ELSE c

\* s.lower()
Lower(s) == [i \in 1..Len(s) |-> LowerChar(s[i])]

\* s.title(): a cased character is upper-cased when the character before it
\* is not cased, and lower-cased when it is
Title(s) ==
  [i \in 1..Len(s) |->
     IF i > 1 /\ IsCasedChar(s[i-1]) THEN LowerChar(s[i]) ELSE UpperChar(s[i])]

\* s.strip()
Strip(s) ==
  LET keep == {i \in 1..Len(s) : s[i] \notin Whitespace} IN
  IF keep = {} THEN <<>>
  ELSE LET lo == CHOOSE i \in keep : \A j \in keep : i <= j
           hi == CHOOSE i \in keep : \A j \in keep : j <= i
       IN SubSeq(s, lo, hi)

StartsAt(s, sub, i) ==
  /\ i + Len(sub) - 1 <= Len(s)
  /\ SubSeq(s, i, i + Len(sub) - 1) = sub

\* s.find(sub), counted from 1; 0 when sub does not occur
Find(s, sub) ==
  LET at == {i \in 1..Len(s) : StartsAt(s, sub, i)} IN
  IF at = {} THEN 0 ELSE CHOOSE i \in at : \A j \in at : i <= j

\* sub in s
Contains(s, sub) == Find(s, sub) # 0

\* s.split(sep)[0]
SplitFirst(s, sep) ==
  IF Contains(s, sep) THEN SubSeq(s, 1, Find(s, sep) - 1) ELSE s

\* s.replace(old, new), old not empty
RECURSIVE Replace(_, _, _)
Replace(s, old, new) ==
  IF s = <<>> THEN <<>>
  ELSE IF StartsAt(s, old, 1)
    THEN new \o Replace(SubSeq(s, Len(old) + 1, Len(s)), old, new)
    ELSE <<Head(s)>> \o Replace(Tail(s), old, new)

\* s.isdigit()
IsDigit(s) == Len(s) > 0 /\ \A i \in 1..Len(s) : s[i] \in Range(DigitChars)

\* bool(s) of a string
Truthy(s) == Len(s) > 0

DigitVal(c) == (CHOOSE i \in DOMAIN DigitChars : DigitChars[i] = c) - 1

RECURSIVE DigitsValue(_)
DigitsValue(d) ==
  IF d = <<>> THEN 0
  ELSE 10 * DigitsValue(SubSeq(d, 1, Len(d) - 1)) + DigitVal(d[Len(d)])

\* int(s): surrounding whitespace, an optional sign, then decimal digits
\* that single underscores may separate; anything else is a ValueError
IntOf(s) ==
  LET t      == Strip(s)
      signed == Len(t) > 0 /\ t[1] \in {"+", "-"}
      body   == IF signed THEN Tail(t) ELSE t
      grouped ==
        /\ Len(body) > 0
        /\ body[1] # "_" /\ body[Len(body)] # "_"
        /\ \A i \in 1..(Len(body) - 1) : ~(body[i] = "_" /\ body[i+1] = "_")
      digits == SelectSeq(body, LAMBDA c : c # "_")
  IN IF grouped /\ IsDigit(digits)
       THEN IntV(IF signed /\ t[1] = "-" THEN 0 - DigitsValue(digits)
                                        ELSE DigitsValue(digits))
       ELSE Raise("ValueError")

(***************************************************************************)
(* format_age_f                                                            *)
(***************************************************************************)

\* a variant of the test of line 231 that asks for the comma too
CommaAndAmpBoth(age) == Contains(age, <<",">>) /\ Contains(age, <<"&">>)

\* the test of line 231, "',' and '&' in age": Python reads it as
\* ',' and ('&' in age), and the first operand is the truth value of ','
CommaAndAmpTest(age) == Truthy(<<",">>) /\ Contains(age, <<"&">>)

\* a variant of the test of line 239 that strips one trailing 's' only
DecadeTestTrailing(age) ==
  /\ Len(age) > 0 /\ age[Len(age)] = "s"
  /\ IsDigit(SubSeq(age, 1, Len(age) - 1))

\* the test of line 239
DecadeTest(age) ==
  Contains(age, <<"s">>) /\ IsDigit(Replace(age, <<"s">>, <<>>))

\* the value returned at line 240
DecadeValue(age) == IntOf(Replace(age, <<"s">>, <<>>))

\* The line of the return statement format_age_f leaves through.  The
\* character U+00BD (one half) of line 243 is written "1/2".
format_age_line(age) ==
  IF IsInstanceStr(age) THEN
    LET a == Lower(Strip(age.v)) IN
    IF Contains(a, <<"a"," ","m","i","n">>) THEN 228
    ELSE IF Contains(a, <<"?">>) THEN 230
    ELSE IF CommaAndAmpTest(a) THEN 232
    ELSE IF Contains(a, <<"&">>) THEN 234
    ELSE IF Contains(a, <<"o","r">>) THEN 236
    ELSE IF Contains(a, <<"t","o">>) THEN 238
    ELSE IF DecadeTest(a) THEN 240
    ELSE IF Contains(a, <<"'","s">>) /\ IsDigit(Replace(a, <<"'","s">>, <<>>))
      THEN 242
    ELSE IF Contains(a, <<"1/2">>) THEN 244
    ELSE IF IsDigit(a) THEN 246
    ELSE 248
  ELSE IF IsInstanceInt(age) THEN 250
  ELSE 252

format_age_f(age) ==
  LET line == format_age_line(age)
      a    == Lower(Strip(age.v))
  IN CASE line \in {228, 230, 232, 248, 252} -> NaN
       [] line = 234 -> IntOf(Strip(SplitFirst(a, <<"&">>)))
       [] line = 236 -> IntOf(Strip(SplitFirst(a, <<"o","r">>)))
       [] line = 238 -> IntOf(Strip(SplitFirst(a, <<"t","o">>)))
       [] line = 240 -> DecadeValue(a)
       [] line = 242 -> IntOf(Replace(a, <<"'","s">>, <<>>))
       [] line = 244 -> IntOf(Strip(SplitFirst(a, <<"1/2">>)))
       [] line = 246 -> IntOf(a)
       [] line = 250 -> age

(***************************************************************************)
(* age_group_f                                                             *)
(***************************************************************************)
kids        == StrV(<<"k","i","d","s">>)
teen        == StrV(<<"t","e","e","n">>)
young_adult == StrV(<<"y","o","u","n","g"," ","a","d","u","l","t">>)
adult       == StrV(<<"a","d","u","l","t">>)
senior      == StrV(<<"s","e","n","i","o","r">>)
unknown     == StrV(<<"u","n","k","n","o","w","n">>)

\* a number in halves
Halves(x) == IF x.t = "int" THEN 2 * x.v ELSE x.v

\* a variant of the test of line 270 with <= for <
IsKidInclusive(h) == h <= 2 * 13

\* age < 13, the test of line 270
IsKid(h) == h < 2 * 13

\* Comparing a str or None with an int is a TypeError; every comparison
\* with nan is false.
age_group_f(age) ==
  IF age.t \in {"str", "None"} THEN Raise("TypeError")
  ELSE IF age.t = "nan" THEN unknown
  ELSE LET h == Halves(age) IN
    IF IsKid(h) THEN kids
    ELSE IF 2 * 13 <= h /\ h <= 2 * 17 THEN teen
    ELSE IF 2 * 18 <= h /\ h <= 2 * 29 THEN young_adult
    ELSE IF 2 * 30 <= h /\ h <= 2 * 49 THEN adult
    ELSE IF h >= 2 * 50 THEN senior
    ELSE unknown

(***************************************************************************)
(* The caller: a value, and the functions applied to it one after another. *)
(* A call that raised ends the run.                                        *)
(***************************************************************************)
MaxCalls == 2

StringsUpTo(alphabet, n) == UNION {[1..k -> alphabet] : k \in 0..n}

CanCall == Len(calls) < MaxCalls /\ cell.t # "raise"

Return(fn, ret) ==
  /\ cell' = ret
  /\ calls' = Append(calls, [fn |-> fn, arg |-> cell, ret |-> ret])

\* the age column
MaxAgeLen == 3
MaxAge    == 52
MaxNegAge == 2
AgeAlphabet == {"2", "0", "s", "&", ",", " ", "-", "'", "o", "r", "t", "?"}
AgeExamples ==
  { <<"2","0","s">>, <<"3","0"," ","o","r"," ","4","0">>,
    <<"m","i","d","-","2","0","'","s">>, <<"2","0","'","s">>,
    <<"a"," ","m","i","n","u","t","e">>, <<"2"," ","&"," ","3">>,
    <<"2",","," ","3"," ","&"," ","4">>, <<"2","1/2">>,
    <<"6"," ","t","o"," ","8">>, <<"T","e","e","n","s">>,
    <<" ","6","0","S"," ">>, <<"1","8"," ","m","o","n","t","h","s">>,
    <<"-","5"," ","o","r"," ","6">>, <<"2","_","0">> }
AgeInputs ==
  {StrV(s) : s \in StringsUpTo(AgeAlphabet, MaxAgeLen) \cup AgeExamples}
    \cup {IntV(n) : n \in (0 - MaxNegAge)..MaxAge}
    \cup {FloatV(h) : h \in (0 - 2 * MaxNegAge)..(2 * MaxAge)}
    \cup {NaN, None}

InitAge == cell \in AgeInputs /\ calls = <<>>

FormatAge ==
  /\ CanCall
  /\ cell' = format_age_f(cell)
  /\ calls' = Append(calls, [fn |-> "format_age_f", arg |-> cell,
                             ret |-> format_age_f(cell),
                             line |-> format_age_line(cell)])

AgeGroup == CanCall /\ Return("age_group_f", age_group_f(cell))

NextAge == FormatAge \/ AgeGroup

SpecAge == InitAge /\ [][NextAge]_vars

(***************************************************************************)
(* Properties of format_age_f and age_group_f, under SpecAge.              *)
(***************************************************************************)
FormatAgeCalls == {i \in DOMAIN calls : calls[i].fn = "format_age_f"}
AgeGroupCalls  == {i \in DOMAIN calls : calls[i].fn = "age_group_f"}

\* the string format_age_f works on after line 226
Trimmed(c) == Lower(Strip(c.arg.v))

\* C2: whenever format_age_f returns, the age it returns is a non-negative
\* integer or the missing sentinel, whatever the input was.
C2_AgeNonNegativeOrMissing ==
  \A i \in FormatAgeCalls :
    calls[i].ret.t # "raise" =>
      \/ calls[i].ret = NaN
      \/ calls[i].ret.t = "int" /\ calls[i].ret.v >= 0

HasChar(s, c) == \E k \in 1..Len(s) : s[k] = c

\* C9: a string that contains '&', with or without a comma, leaves
\* format_age_f through one of the returns of the missing sentinel at or
\* before line 232, and no input leaves through the return of line 234.
C9_AmpersandAlwaysMissing ==
  \A i \in FormatAgeCalls :
    /\ calls[i].line # 234
    /\ calls[i].arg.t = "str" /\ HasChar(calls[i].arg.v, "&") =>
         calls[i].ret = NaN /\ calls[i].line \in {228, 230, 232}

\* an input with '&' and no comma was given and came back missing through
\* the test of line 231
C9_Witness ==
  \E i \in FormatAgeCalls :
    /\ calls[i].arg.t = "str"
    /\ HasChar(calls[i].arg.v, "&") /\ ~HasChar(calls[i].arg.v, ",")
    /\ HasChar(calls[i].arg.v, "2")
    /\ calls[i].line = 232 /\ calls[i].ret = NaN

\* the calls on a string that none of the rules before the decade rule
\* matched ('a min', '?', '&', 'or', 'to')
PastEarlierRules ==
  {i \in FormatAgeCalls :
     calls[i].arg.t = "str"
       /\ calls[i].line \notin {228, 230, 232, 234, 236, 238}}

EndsInS(a) == Len(a) > 0 /\ a[Len(a)] = "s"
TrailingDecade(a) == EndsInS(a) /\ IsDigit(SubSeq(a, 1, Len(a) - 1))
LaterRuleMatches(a) ==
  \/ Contains(a, <<"'","s">>) /\ IsDigit(Replace(a, <<"'","s">>, <<>>))
  \/ Contains(a, <<"1/2">>)
  \/ IsDigit(a)

\* C10 as stated: past the earlier rules, the decade rule yields an integer
\* only for digits followed by one trailing 's', and a string with an 's'
\* that is not its last character, matched by no later rule, comes back
\* missing.
C10_DecadeOnlyTrailingS ==
  \A i \in PastEarlierRules :
    LET a == Trimmed(calls[i]) IN
    /\ calls[i].line = 240 => TrailingDecade(a)
    /\ HasChar(a, "s") /\ ~EndsInS(a) /\ ~LaterRuleMatches(a) =>
         calls[i].ret = NaN

\* C10 amended: past the earlier rules, the decade rule fires exactly when
\* the trimmed, lower-cased string is made of digits and of 's' only, with
\* at least one of each, wherever the 's' stand; it returns the integer the
\* digits spell.
C10_DecadeRemovesEveryS ==
  \A i \in PastEarlierRules :
    LET a      == Trimmed(calls[i])
        digits == SelectSeq(a, LAMBDA c : c # "s")
        fires  == /\ HasChar(a, "s")
                  /\ digits # <<>>
                  /\ \A k \in 1..Len(a) : a[k] = "s" \/ a[k] \in Range(DigitChars)
    IN /\ calls[i].line = 240 <=> fires
       /\ calls[i].line = 240 => calls[i].ret = IntV(DigitsValue(digits))

\* an 's' before the last digit: the decade rule still gave an integer
C10_Witness ==
  \E i \in PastEarlierRules :
    /\ ~EndsInS(Trimmed(calls[i]))
    /\ calls[i].line = 240
    /\ calls[i].ret.t = "int"

NumericArg(c) == c.arg.t \in {"int", "float"}

\* C8 as stated: for every numeric age, integer or fractional, age_group_f
\* returns one of the five groups and never 'unknown'.
C8_FiveGroupsExhaustive ==
  \A i \in AgeGroupCalls :
    NumericArg(calls[i]) =>
      /\ calls[i].ret \in {kids, teen, young_adult, adult, senior}
      /\ calls[i].ret # unknown

\* C8 amended: an age below 13 is 'kids', from 13 to 17 'teen', from 18 to
\* 29 'young adult', from 30 to 49 'adult', from 50 on 'senior'; an integer
\* age is always in one of the five, and a fractional age strictly between
\* 17 and 18, 29 and 30 or 49 and 50 is in none and gives 'unknown'.
C8_GroupsOfIntegerAges ==
  \A i \in AgeGroupCalls :
    NumericArg(calls[i]) =>
      LET h   == Halves(calls[i].arg)
          ret == calls[i].ret
      IN /\ h < 26 => ret = kids
         /\ 26 <= h /\ h <= 34 => ret = teen
         /\ 36 <= h /\ h <= 58 => ret = young_adult
         /\ 60 <= h /\ h <= 98 => ret = adult
         /\ 100 <= h => ret = senior
         /\ h \in {35, 59, 99} => ret = unknown
         /\ h % 2 = 0 => ret # unknown

\* the age 17.5 was grouped, and the group is 'unknown'
C8_Witness ==
  \E i \in AgeGroupCalls :
    calls[i].arg = FloatV(35) /\ calls[i].ret = unknown

(***************************************************************************)
(* fatal_f                                                                 *)
(***************************************************************************)
Yes     == StrV(<<"Y","e","s">>)
No      == StrV(<<"N","o">>)
UNKNOWN == StrV(<<"U","N","K","N","O","W","N">>)

\* x.strip() of line 261 exists for a str only: any other value that is
\* neither missing nor an int (a float, say) raises AttributeError there.
fatal_f(x) ==
  IF IsNa(x) THEN UNKNOWN
  ELSE IF IsInstanceInt(x) THEN UNKNOWN
  ELSE IF ~IsInstanceStr(x) THEN Raise("AttributeError")
  ELSE LET s == Lower(Strip(x.v)) IN
    IF s = <<"y">> \/ s = <<"f">> THEN Yes
    ELSE IF s = <<"n">> THEN No
    ELSE UNKNOWN

\* the fatality column
MaxFatalLen == 3
FatalAlphabet == {"y", "Y", "n", "N", "f", " ", "e", "s", "o"}
FatalExamples ==
  { <<"U","N","K","N","O","W","N">>, <<"u","n","k","n","o","w","n">>,
    <<" ","F"," ">>, <<"2","0","1","7">>, <<"M">> }
FatalInputs ==
  {StrV(s) : s \in StringsUpTo(FatalAlphabet, MaxFatalLen) \cup FatalExamples}
    \cup {IntV(n) : n \in 0..5}
    \cup {FloatV(h) : h \in 1..5}
    \cup {NaN, None}

InitFatal == cell \in FatalInputs /\ calls = <<>>

Fatal == CanCall /\ Return("fatal_f", fatal_f(cell))

NextFatal == Fatal

SpecFatal == InitFatal /\ [][NextFatal]_vars

\* C3: fatal_f is total: whatever the input (missing, an integer, a string,
\* a fractional number) it returns 'Yes', 'No' or 'UNKNOWN' and raises
\* nothing, and a string that is not 'y', 'f' or 'n' once trimmed and
\* lower-cased gives 'UNKNOWN'.
C3_FatalTotal ==
  \A i \in DOMAIN calls :
    calls[i].fn = "fatal_f" =>
      /\ calls[i].ret \in {Yes, No, UNKNOWN}
      /\ ( /\ calls[i].arg.t = "str"
           /\ Lower(Strip(calls[i].arg.v)) \notin {<<"y">>, <<"f">>, <<"n">>}
         ) => calls[i].ret = UNKNOWN

\* C5: fatal_f is idempotent: fed its own result, it returns that result.
C5_FatalIdempotent ==
  \A i \in DOMAIN calls :
    ( /\ i > 1
      /\ calls[i].fn = "fatal_f"
      /\ calls[i-1].fn = "fatal_f"
    ) => calls[i].ret = calls[i-1].ret

(***************************************************************************)
(* The lookup tables.  A dict is the sequence of its <<key, value>> pairs  *)
(* in the order of the source; each entry is headed by its source line.    *)
(***************************************************************************)

\* d.get(k, default): of two entries with one key the later one stands
DictGet(d, k, default) ==
  LET hits == {i \in DOMAIN d : d[i][1] = k} IN
  IF hits = {} THEN default
  ELSE d[CHOOSE i \in hits : \A j \in hits : j <= i][2]

DictKeys(d)   == {d[i][1] : i \in DOMAIN d}
DictValues(d) == {d[i][2] : i \in DOMAIN d}

corrections ==
  <<
    \* 123  'Usa': 'United States'
    << <<"U","s","a">>,
       <<"U","n","i","t","e","d"," ","S","t","a","t","e","s">> >>,
    \* 124  'Uk': 'United Kingdom'
    << <<"U","k">>,
       <<"U","n","i","t","e","d"," ","K","i","n","g","d","o","m">> >>,
    \* 125  'England': 'United Kingdom'
    << <<"E","n","g","l","a","n","d">>,
       <<"U","n","i","t","e","d"," ","K","i","n","g","d","o","m">> >>,
    \* 126  'Ceylon (Sri Lanka)': 'Sri Lanka'
    << <<"C","e","y","l","o","n"," ","(","S","r","i"," ","L","a","n","k","a",")">>,
       <<"S","r","i"," ","L","a","n","k","a">> >>,
    \* 127  'Trinidad & Tobago': 'Trinidad and Tobago'
    << <<"T","r","i","n","i","d","a","d"," ","&"," ","T","o","b","a","g","o">>,
       <<"T","r","i","n","i","d","a","d"," ","a","n","d"," ","T","o","b","a","g","o">> >>,
    \* 128  'Trinidad': 'Trinidad and Tobago'
    << <<"T","r","i","n","i","d","a","d">>,
       <<"T","r","i","n","i","d","a","d"," ","a","n","d"," ","T","o","b","a","g","o">> >>,
    \* 129  'St. Martin': 'Saint Martin'
    << <<"S","t","."," ","M","a","r","t","i","n">>,
       <<"S","a","i","n","t"," ","M","a","r","t","i","n">> >>,
    \* 130  'St. Maartin': 'Saint Martin'
    << <<"S","t","."," ","M","a","a","r","t","i","n">>,
       <<"S","a","i","n","t"," ","M","a","r","t","i","n">> >>,
    \* 131  'St Martin': 'Saint Martin'
    << <<"S","t"," ","M","a","r","t","i","n">>,
       <<"S","a","i","n","t"," ","M","a","r","t","i","n">> >>,
    \* 132  'St Kitts / Nevis': 'Saint Kitts and Nevis'
    << <<"S","t"," ","K","i","t","t","s"," ","/"," ","N","e","v","i","s">>,
       <<"S","a","i","n","t"," ","K","i","t","t","s"," ","a","n","d"," ","N","e","v","i","s">> >>,
    \* 133  'United Arab Emirates (Uae)': 'United Arab Emirates'
    << <<"U","n","i","t","e","d"," ","A","r","a","b"," ","E","m","i","r","a","t","e","s"," ","(","U","a","e",")">>,
       <<"U","n","i","t","e","d"," ","A","r","a","b"," ","E","m","i","r","a","t","e","s">> >>,
    \* 134  'Reunion Island': 'Reunion'
    << <<"R","e","u","n","i","o","n"," ","I","s","l","a","n","d">>,
       <<"R","e","u","n","i","o","n">> >>,
    \* 135  'St Helena, British Overseas Territory': 'Saint Helena'
    << <<"S","t"," ","H","e","l","e","n","a",","," ","B","r","i","t","i","s","h"," ","O","v","e","r","s","e","a","s"," ","T","e","r","r","i","t","o","r","y">>,
       <<"S","a","i","n","t"," ","H","e","l","e","n","a">> >>,
    \* 136  'Turks And Caicos': 'Turks and Caicos Islands'
    << <<"T","u","r","k","s"," ","A","n","d"," ","C","a","i","c","o","s">>,
       <<"T","u","r","k","s"," ","a","n","d"," ","C","a","i","c","o","s"," ","I","s","l","a","n","d","s">> >>,
    \* 137  'Turks & Caicos': 'Turks and Caicos Islands'
    << <<"T","u","r","k","s"," ","&"," ","C","a","i","c","o","s">>,
       <<"T","u","r","k","s"," ","a","n","d"," ","C","a","i","c","o","s"," ","I","s","l","a","n","d","s">> >>,
    \* 138  'Columbia': 'Colombia'
    << <<"C","o","l","u","m","b","i","a">>,
       <<"C","o","l","o","m","b","i","a">> >>,
    \* 139  'Papua New Guinea': 'Papua New Guinea'
    << <<"P","a","p","u","a"," ","N","e","w"," ","G","u","i","n","e","a">>,
       <<"P","a","p","u","a"," ","N","e","w"," ","G","u","i","n","e","a">> >>,
    \* 140  'British Overseas Territory': 'British Overseas Territories'
    << <<"B","r","i","t","i","s","h"," ","O","v","e","r","s","e","a","s"," ","T","e","r","r","i","t","o","r","y">>,
       <<"B","r","i","t","i","s","h"," ","O","v","e","r","s","e","a","s"," ","T","e","r","r","i","t","o","r","i","e","s">> >>,
    \* 141  'Palestinian Territories': 'Palestine'
    << <<"P","a","l","e","s","t","i","n","i","a","n"," ","T","e","r","r","i","t","o","r","i","e","s">>,
       <<"P","a","l","e","s","t","i","n","e">> >>,
    \* 142  'New Caledonia': 'New Caledonia'
    << <<"N","e","w"," ","C","a","l","e","d","o","n","i","a">>,
       <<"N","e","w"," ","C","a","l","e","d","o","n","i","a">> >>,
    \* 143  'Northern Arabian Sea': 'Arabian Sea'
    << <<"N","o","r","t","h","e","r","n"," ","A","r","a","b","i","a","n"," ","S","e","a">>,
       <<"A","r","a","b","i","a","n"," ","S","e","a">> >>,
    \* 144  'Andaman Islands': 'Andaman and Nicobar Islands'
    << <<"A","n","d","a","m","a","n"," ","I","s","l","a","n","d","s">>,
       <<"A","n","d","a","m","a","n"," ","a","n","d"," ","N","i","c","o","b","a","r"," ","I","s","l","a","n","d","s">> >>,
    \* 145  'Equatorial Guinea / Cameroon': 'Equatorial Guinea'
    << <<"E","q","u","a","t","o","r","i","a","l"," ","G","u","i","n","e","a"," ","/"," ","C","a","m","e","r","o","o","n">>,
       <<"E","q","u","a","t","o","r","i","a","l"," ","G","u","i","n","e","a">> >>,
    \* 146  'Mediterranean Sea': 'Mediterranean'
    << <<"M","e","d","i","t","e","r","r","a","n","e","a","n"," ","S","e","a">>,
       <<"M","e","d","i","t","e","r","r","a","n","e","a","n">> >>,
    \* 147  'Red Sea?': 'Red Sea'
    << <<"R","e","d"," ","S","e","a","?">>,
       <<"R","e","d"," ","S","e","a">> >>,
    \* 148  'Asia?': 'Asia'
    << <<"A","s","i","a","?">>,
       <<"A","s","i","a">> >>,
    \* 149  'Egypt / Israel': 'Egypt'
    << <<"E","g","y","p","t"," ","/"," ","I","s","r","a","e","l">>,
       <<"E","g","y","p","t">> >>,
    \* 150  'Between Portugal & India': 'India'
    << <<"B","e","t","w","e","e","n"," ","P","o","r","t","u","g","a","l"," ","&"," ","I","n","d","i","a">>,
       <<"I","n","d","i","a">> >>,
    \* 151  'Africa': 'African continent'
    << <<"A","f","r","i","c","a">>,
       <<"A","f","r","i","c","a","n"," ","c","o","n","t","i","n","e","n","t">> >>,
    \* 152  'Coast Of Africa': 'African coast'
    << <<"C","o","a","s","t"," ","O","f"," ","A","f","r","i","c","a">>,
       <<"A","f","r","i","c","a","n"," ","c","o","a","s","t">> >>,
    \* 153  'Tasman Sea': 'Tasman Sea region'
    << <<"T","a","s","m","a","n"," ","S","e","a">>,
       <<"T","a","s","m","a","n"," ","S","e","a"," ","r","e","g","i","o","n">> >>,
    \* 154  'Caribbean Sea': 'Caribbean'
    << <<"C","a","r","i","b","b","e","a","n"," ","S","e","a">>,
       <<"C","a","r","i","b","b","e","a","n">> >>,
    \* 155  'Atlantic Ocean': 'Atlantic'
    << <<"A","t","l","a","n","t","i","c"," ","O","c","e","a","n">>,
       <<"A","t","l","a","n","t","i","c">> >>,
    \* 156  'Okinawa': 'Japan'
    << <<"O","k","i","n","a","w","a">>,
       <<"J","a","p","a","n">> >>,
    \* 157  'Roatan': 'Honduras'
    << <<"R","o","a","t","a","n">>,
       <<"H","o","n","d","u","r","a","s">> >>,
    \* 158  'Greenland': 'Denmark'
    << <<"G","r","e","e","n","l","a","n","d">>,
       <<"D","e","n","m","a","r","k">> >>,
    \* 159  'St Kitts': 'Saint Kitts and Nevis'
    << <<"S","t"," ","K","i","t","t","s">>,
       <<"S","a","i","n","t"," ","K","i","t","t","s"," ","a","n","d"," ","N","e","v","i","s">> >>,
    \* 160  'St Helena': 'Saint Helena'
    << <<"S","t"," ","H","e","l","e","n","a">>,
       <<"S","a","i","n","t"," ","H","e","l","e","n","a">> >>,
    \* 161  'Bahrein': 'Bahrain'
    << <<"B","a","h","r","e","i","n">>,
       <<"B","a","h","r","a","i","n">> >>,
    \* 162  'Diego Garcia': 'British Indian Ocean Territory'
    << <<"D","i","e","g","o"," ","G","a","r","c","i","a">>,
       <<"B","r","i","t","i","s","h"," ","I","n","d","i","a","n"," ","O","c","e","a","n"," ","T","e","r","r","i","t","o","r","y">> >>,
    \* 163  'Guam': 'United States'
    << <<"G","u","a","m">>,
       <<"U","n","i","t","e","d"," ","S","t","a","t","e","s">> >>,
    \* 164  'Hong Kong': 'China'
    << <<"H","o","n","g"," ","K","o","n","g">>,
       <<"C","h","i","n","a">> >>,
    \* 165  'Korea': 'South Korea'
    << <<"K","o","r","e","a">>,
       <<"S","o","u","t","h"," ","K","o","r","e","a">> >>
  >>

non_countries ==
  {
    <<"T","a","s","m","a","n"," ","S","e","a"," ","r","e","g","i","o","n">>,
    <<"M","e","d","i","t","e","r","r","a","n","e","a","n">>,
    <<"I","n","d","i","a","n"," ","O","c","e","a","n","?">>,
    <<"A","t","l","a","n","t","i","c"," ","O","c","e","a","n">>,
    <<"C","o","r","a","l"," ","S","e","a">>,
    <<"T","a","s","m","a","n"," ","S","e","a">>,
    <<"M","e","d","i","t","e","r","r","a","n","e","a","n"," ","S","e","a">>,
    <<"C","a","r","i","b","b","e","a","n"," ","S","e","a">>,
    <<"P","a","c","i","f","i","c"," ","O","c","e","a","n">>,
    <<"I","n","d","i","a","n"," ","O","c","e","a","n">>,
    <<"R","e","d"," ","S","e","a">>,
    <<"G","u","l","f"," ","o","f"," ","A","d","e","n">>,
    <<"N","o","r","t","h","e","r","n"," ","A","r","a","b","i","a","n"," ","S","e","a">>,
    <<"A","s","i","a">>,
    <<"A","f","r","i","c","a","n"," ","c","o","n","t","i","n","e","n","t">>,
    <<"A","f","r","i","c","a","n"," ","c","o","a","s","t">>
  }

activity_corrections ==
  <<
    \* 183  'scubadiving': 'scuba diving'
    << <<"s","c","u","b","a","d","i","v","i","n","g">>,
       <<"s","c","u","b","a"," ","d","i","v","i","n","g">> >>,
    \* 184  'bodyboarding': 'body boarding'
    << <<"b","o","d","y","b","o","a","r","d","i","n","g">>,
       <<"b","o","d","y"," ","b","o","a","r","d","i","n","g">> >>,
    \* 185  'bodysurfing': 'body surfing'
    << <<"b","o","d","y","s","u","r","f","i","n","g">>,
       <<"b","o","d","y"," ","s","u","r","f","i","n","g">> >>,
    \* 186  'boogieboarding': 'boogie boarding'
    << <<"b","o","o","g","i","e","b","o","a","r","d","i","n","g">>,
       <<"b","o","o","g","i","e"," ","b","o","a","r","d","i","n","g">> >>,
    \* 187  'freediving': 'free diving'
    << <<"f","r","e","e","d","i","v","i","n","g">>,
       <<"f","r","e","e"," ","d","i","v","i","n","g">> >>,
    \* 188  'stand-uppaddleboarding': 'stand-up paddleboarding'
    << <<"s","t","a","n","d","-","u","p","p","a","d","d","l","e","b","o","a","r","d","i","n","g">>,
       <<"s","t","a","n","d","-","u","p"," ","p","a","d","d","l","e","b","o","a","r","d","i","n","g">> >>,
    \* 189  'kayakfishing': 'kayak fishing'
    << <<"k","a","y","a","k","f","i","s","h","i","n","g">>,
       <<"k","a","y","a","k"," ","f","i","s","h","i","n","g">> >>,
    \* 190  'fishingforsharks': 'shark fishing'
    << <<"f","i","s","h","i","n","g","f","o","r","s","h","a","r","k","s">>,
       <<"s","h","a","r","k"," ","f","i","s","h","i","n","g">> >>,
    \* 191  'surfing': 'surfing'
    << <<"s","u","r","f","i","n","g">>,
       <<"s","u","r","f","i","n","g">> >>,
    \* 192  'swimming': 'swimming'
    << <<"s","w","i","m","m","i","n","g">>,
       <<"s","w","i","m","m","i","n","g">> >>,
    \* 193  'fishing': 'fishing'
    << <<"f","i","s","h","i","n","g">>,
       <<"f","i","s","h","i","n","g">> >>,
    \* 194  'spearfishing': 'spearfishing'
    << <<"s","p","e","a","r","f","i","s","h","i","n","g">>,
       <<"s","p","e","a","r","f","i","s","h","i","n","g">> >>,
    \* 195  'wading': 'wading'
    << <<"w","a","d","i","n","g">>,
       <<"w","a","d","i","n","g">> >>,
    \* 196  'bathing': 'bathing'
    << <<"b","a","t","h","i","n","g">>,
       <<"b","a","t","h","i","n","g">> >>,
    \* 197  'diving': 'diving'
    << <<"d","i","v","i","n","g">>,
       <<"d","i","v","i","n","g">> >>,
    \* 198  'snorkeling': 'snorkeling'
    << <<"s","n","o","r","k","e","l","i","n","g">>,
       <<"s","n","o","r","k","e","l","i","n","g">> >>,
    \* 199  'standing': 'standing'
    << <<"s","t","a","n","d","i","n","g">>,
       <<"s","t","a","n","d","i","n","g">> >>,
    \* 200  'treadingwater': 'treading water'
    << <<"t","r","e","a","d","i","n","g","w","a","t","e","r">>,
       <<"t","r","e","a","d","i","n","g"," ","w","a","t","e","r">> >>,
    \* 201  'felloverboard': 'fell overboard'
    << <<"f","e","l","l","o","v","e","r","b","o","a","r","d">>,
       <<"f","e","l","l"," ","o","v","e","r","b","o","a","r","d">> >>,
    \* 202  'pearldiving': 'pearl diving'
    << <<"p","e","a","r","l","d","i","v","i","n","g">>,
       <<"p","e","a","r","l"," ","d","i","v","i","n","g">> >>,
    \* 203  'windsurfing': 'windsurfing'
    << <<"w","i","n","d","s","u","r","f","i","n","g">>,
       <<"w","i","n","d","s","u","r","f","i","n","g">> >>,
    \* 204  'walking': 'walking'
    << <<"w","a","l","k","i","n","g">>,
       <<"w","a","l","k","i","n","g">> >>,
    \* 205  'canoeing': 'canoeing'
    << <<"c","a","n","o","e","i","n","g">>,
       <<"c","a","n","o","e","i","n","g">> >>,
    \* 206  'floating': 'floating'
    << <<"f","l","o","a","t","i","n","g">>,
       <<"f","l","o","a","t","i","n","g">> >>,
    \* 207  'sharkfishing': 'shark fishing'
    << <<"s","h","a","r","k","f","i","s","h","i","n","g">>,
       <<"s","h","a","r","k"," ","f","i","s","h","i","n","g">> >>,
    \* 208  'surffishing': 'surf fishing'
    << <<"s","u","r","f","f","i","s","h","i","n","g">>,
       <<"s","u","r","f"," ","f","i","s","h","i","n","g">> >>,
    \* 209  'playing': 'playing'
    << <<"p","l","a","y","i","n","g">>,
       <<"p","l","a","y","i","n","g">> >>,
    \* 210  'surf-skiing': 'surf skiing'
    << <<"s","u","r","f","-","s","k","i","i","n","g">>,
       <<"s","u","r","f"," ","s","k","i","i","n","g">> >>,
    \* 211  'rowing': 'rowing'
    << <<"r","o","w","i","n","g">>,
       <<"r","o","w","i","n","g">> >>,
    \* 212  'surf-skiing': 'surf skiing'
    << <<"s","u","r","f","-","s","k","i","i","n","g">>,
       <<"s","u","r","f"," ","s","k","i","i","n","g">> >>,
    \* 213  'paddleboarding': 'paddle boarding'
    << <<"p","a","d","d","l","e","b","o","a","r","d","i","n","g">>,
       <<"p","a","d","d","l","e"," ","b","o","a","r","d","i","n","g">> >>,
    \* 214  'sponge diving': 'sponge diving'
    << <<"s","p","o","n","g","e"," ","d","i","v","i","n","g">>,
       <<"s","p","o","n","g","e"," ","d","i","v","i","n","g">> >>,
    \* 215  'divingfortrochus': 'diving for trochus'
    << <<"d","i","v","i","n","g","f","o","r","t","r","o","c","h","u","s">>,
       <<"d","i","v","i","n","g"," ","f","o","r"," ","t","r","o","c","h","u","s">> >>,
    \* 216  'surfskiiing': 'surf skiing'
    << <<"s","u","r","f","s","k","i","i","i","n","g">>,
       <<"s","u","r","f"," ","s","k","i","i","n","g">> >>,
    \* 217  'seadisaster': 'sea disaster'
    << <<"s","e","a","d","i","s","a","s","t","e","r">>,
       <<"s","e","a"," ","d","i","s","a","s","t","e","r">> >>,
    \* 218  'skindiving': 'free diving'
    << <<"s","k","i","n","d","i","v","i","n","g">>,
       <<"f","r","e","e"," ","d","i","v","i","n","g">> >>
  >>

(***************************************************************************)
(* normalize_case_f, standardize_names_f, filter_non_countries_f           *)
(***************************************************************************)

\* country.title() exists for a str only
normalize_case_f(country) ==
  IF IsNa(country) THEN country
  ELSE IF ~IsInstanceStr(country) THEN Raise("AttributeError")
  ELSE StrV(Title(country.v))

\* a value that is no str is no key of the table
standardize_names_f(country) ==
  IF IsInstanceStr(country)
    THEN StrV(DictGet(corrections, country.v, country.v))
    ELSE country

filter_non_countries_f(country) ==
  IF IsInstanceStr(country) /\ country.v \in non_countries
    THEN NaN
    ELSE country

\* the country column: every name of the two tables as written and in
\* lower case, and the names of the data set's examples
CountryCalls == 3
CountryExamples ==
  { <<"u","s","a">>, <<"U","S","A">>, <<"F","r","a","n","c","e">>,
    <<"s","o","u","t","h"," ","a","f","r","i","c","a">>,
    <<"3","r","d"," ","r","e","e","f">>, <<>> }
CountryNames ==
  non_countries \cup DictKeys(corrections) \cup DictValues(corrections)
    \cup CountryExamples
CountryInputs ==
  {StrV(s) : s \in CountryNames} \cup {StrV(Lower(s)) : s \in CountryNames}
    \cup {NaN, None, IntV(5)}

InitCountry == cell \in CountryInputs /\ calls = <<>>

CanCallCountry == Len(calls) < CountryCalls /\ cell.t # "raise"

NormalizeCase ==
  CanCallCountry /\ Return("normalize_case_f", normalize_case_f(cell))

StandardizeNames ==
  CanCallCountry /\ Return("standardize_names_f", standardize_names_f(cell))

FilterNonCountries ==
  CanCallCountry
    /\ Return("filter_non_countries_f", filter_non_countries_f(cell))

NextCountry == NormalizeCase \/ StandardizeNames \/ FilterNonCountries

SpecCountry == InitCountry /\ [][NextCountry]_vars

\* C6: a label of the non-country set put through normalize_case_f, then
\* standardize_names_f, then filter_non_countries_f comes out as the
\* missing sentinel.
C6_NonCountryBecomesMissing ==
  ( /\ Len(calls) >= 3
    /\ calls[1].fn = "normalize_case_f"
    /\ calls[2].fn = "standardize_names_f"
    /\ calls[3].fn = "filter_non_countries_f"
    /\ calls[1].arg.t = "str"
    /\ calls[1].arg.v \in non_countries
  ) => calls[3].ret = NaN

(***************************************************************************)
(* normalize_activity_f                                                    *)
(***************************************************************************)

\* activity.lower() exists for a str only
normalize_activity_f(activity) ==
  IF IsNa(activity) THEN activity
  ELSE IF ~IsInstanceStr(activity) THEN Raise("AttributeError")
  ELSE LET normalized == Replace(Lower(activity.v), <<" ">>, <<>>) IN
       StrV(DictGet(activity_corrections, normalized, normalized))

\* the activity column: every key and every phrase of the table as
\* written and in title case, and short strings of letters, spaces, tabs
\* and hyphens
MaxActivityLen == 3
ActivityAlphabet == {"a", "B", " ", "-", "\t"}
ActivityExamples ==
  { <<"S","c","u","b","a"," ","D","i","v","i","n","g">>,
    <<"U","n","k","n","o","w","n"," ","S","p","o","r","t">>,
    <<"S","U","R","F","I","N","G"," ">> }
ActivityNames ==
  DictKeys(activity_corrections) \cup DictValues(activity_corrections)
    \cup ActivityExamples \cup StringsUpTo(ActivityAlphabet, MaxActivityLen)
ActivityInputs ==
  {StrV(s) : s \in ActivityNames} \cup {StrV(Title(s)) : s \in ActivityNames}
    \cup {NaN, None, IntV(5)}

InitActivity == cell \in ActivityInputs /\ calls = <<>>

NormalizeActivity ==
  CanCall /\ Return("normalize_activity_f", normalize_activity_f(cell))

NextActivity == NormalizeActivity

SpecActivity == InitActivity /\ [][NextActivity]_vars

\* C4: normalize_activity_f is idempotent: fed its own result, a display
\* phrase of the table or a compact key that is not in it, it returns
\* that result.
C4_ActivityIdempotent ==
  \A i \in DOMAIN calls :
    ( /\ i > 1
      /\ calls[i].fn = "normalize_activity_f"
      /\ calls[i-1].fn = "normalize_activity_f"
    ) => calls[i].ret = calls[i-1].ret

(***************************************************************************)
(* The table functions.  A table is the sequence of its rows, each row the *)
(* index label pandas keeps through dropna and filtering (idx) and the     *)
(* value of the column the function is given; the other columns are not    *)
(* touched.                                                                *)
(***************************************************************************)
MaxRows == 2

Table(rows) == [t |-> "df", v |-> rows]

\* the table whose column, named col, holds the values f[1], ..., f[k]
TableOf(col, f) ==
  Table([i \in DOMAIN f |-> [idx |-> i] @@ (col :> f[i])])

\* cell is a table of at most MaxRows rows with a column of these values
InitTable(col, values) ==
  \E k \in 0..MaxRows : \E f \in [1..k -> values] : cell = TableOf(col, f)

(***************************************************************************)
(* clean_sex_column_f                                                      *)
(***************************************************************************)

\* line 78
LowerIfStr(x) == IF IsInstanceStr(x) THEN StrV(Lower(x.v)) ELSE x

\* a variant of line 79 with x.strip() for x.replace(" ", "")
StripIfStr(x) == IF IsInstanceStr(x) THEN StrV(Strip(x.v)) ELSE x

\* line 79
RemoveSpacesIfStr(x) ==
  IF IsInstanceStr(x) THEN StrV(Replace(x.v, <<" ">>, <<>>)) ELSE x

clean_sex_column_f(df) ==
  Table([i \in 1..Len(df.v) |->
           [idx |-> df.v[i].idx,
            sex |-> RemoveSpacesIfStr(LowerIfStr(df.v[i].sex))]])

\* the sex column
MaxSexLen == 2
SexAlphabet == {"M", " ", "\t"}
SexExamples ==
  { <<" ","M","a","l","e"," ">>, <<"U","n","k","n","o","w","n"," ">>,
    <<"f","\n">> }
SexValues ==
  {StrV(s) : s \in StringsUpTo(SexAlphabet, MaxSexLen) \cup SexExamples}
    \cup {None, NaN, IntV(42)}

InitSex == InitTable("sex", SexValues) /\ calls = <<>>

CleanSex == CanCall /\ Return("clean_sex_column_f", clean_sex_column_f(cell))

NextSex == CleanSex

SpecSex == InitSex /\ [][NextSex]_vars

CleanSexCalls == {i \in DOMAIN calls : calls[i].fn = "clean_sex_column_f"}

\* what clean_sex_column_f made of the value before, with the characters
\* of `removed` taken out of a string
SexCleanedOf(before, after, removed) ==
  IF before.t = "str"
    THEN after = StrV(SelectSeq(Lower(before.v), LAMBDA c : c \notin removed))
    ELSE after = before

\* C7 as stated: clean_sex_column_f replaces a string by the string
\* lower-cased with every whitespace character removed (spaces, tabs,
\* newlines), and leaves every other value, missing too, as it is.
C7_EveryWhitespaceRemoved ==
  \A i \in CleanSexCalls :
    /\ Len(calls[i].ret.v) = Len(calls[i].arg.v)
    /\ \A k \in 1..Len(calls[i].arg.v) :
         SexCleanedOf(calls[i].arg.v[k].sex, calls[i].ret.v[k].sex, Whitespace)

\* C7 amended: clean_sex_column_f replaces a string by the string
\* lower-cased with every space character (U+0020) removed, wherever it
\* stands; tabs, newlines and other whitespace stay; every other value,
\* missing too, is left as it is, and the rows stay the same rows.
C7_EverySpaceRemoved ==
  \A i \in CleanSexCalls :
    /\ Len(calls[i].ret.v) = Len(calls[i].arg.v)
    /\ \A k \in 1..Len(calls[i].arg.v) :
         /\ calls[i].ret.v[k].idx = calls[i].arg.v[k].idx
         /\ SexCleanedOf(calls[i].arg.v[k].sex, calls[i].ret.v[k].sex, {" "})

\* a value with a space and a tab was cleaned: the tab is still there
C7_Witness ==
  \E i \in CleanSexCalls : \E k \in 1..Len(calls[i].arg.v) :
    /\ calls[i].arg.v[k].sex.t = "str"
    /\ HasChar(calls[i].arg.v[k].sex.v, " ")
    /\ HasChar(calls[i].arg.v[k].sex.v, "\t")
    /\ HasChar(calls[i].ret.v[k].sex.v, "\t")
    /\ ~HasChar(calls[i].ret.v[k].sex.v, " ")

(***************************************************************************)
(* clean_year_column_f                                                     *)
(***************************************************************************)
valid_start_year == 1900

IsNumber(x) == x.t \in {"int", "float"}

\* a variant of line 18 that leaves the zeros
KeepZero(x) == x

\* line 18: replace(0.0, np.nan)
ReplaceZero(x) == IF IsNumber(x) /\ x.v = 0 THEN NaN ELSE x

\* line 24: astype(int) cuts the fraction off, towards zero
AsTypeInt(x) ==
  IF x.t = "float"
    THEN IntV(IF x.v >= 0 THEN x.v \div 2 ELSE 0 - ((0 - x.v) \div 2))
    ELSE x

clean_year_column_f(df, start_year) ==
  LET step1 == [i \in 1..Len(df.v) |->
                  [idx |-> df.v[i].idx, year |-> ReplaceZero(df.v[i].year)]]
      step2 == SelectSeq(step1, LAMBDA r : ~IsNa(r.year))
      step3 == [i \in 1..Len(step2) |->
                  [idx |-> step2[i].idx, year |-> AsTypeInt(step2[i].year)]]
      step4 == SelectSeq(step3, LAMBDA r : r.year.v >= start_year)
  IN Table(step4)

\* the year column: years, whole and fractional, around 0 and around the
\* default start year, and missing ones
YearSpan == 3
YearValues ==
  {FloatV(h) : h \in (0 - YearSpan)..YearSpan}
    \cup {FloatV(2 * valid_start_year + h) : h \in (0 - YearSpan)..YearSpan}
    \cup {NaN, None}
StartYears == {0 - 1, 0, 1, valid_start_year}

InitYear == InitTable("year", YearValues) /\ calls = <<>>

CleanYear ==
  \E start_year \in StartYears :
    /\ CanCall
    /\ cell' = clean_year_column_f(cell, start_year)
    /\ calls' = Append(calls, [fn |-> "clean_year_column_f", arg |-> cell,
                               ret |-> clean_year_column_f(cell, start_year),
                               valid_start_year |-> start_year])

NextYear == CleanYear

SpecYear == InitYear /\ [][NextYear]_vars

CleanYearCalls == {i \in DOMAIN calls : calls[i].fn = "clean_year_column_f"}

\* C1: whatever the table and the minimum year, every row of the table
\* clean_year_column_f returns has an integer year that is at least the
\* minimum, and no row whose year was 0 or missing is among them.
C1_YearsCleaned ==
  \A i \in CleanYearCalls :
    LET before == calls[i].arg.v
        after  == calls[i].ret.v
    IN /\ \A j \in 1..Len(after) :
            /\ after[j].year.t = "int"
            /\ after[j].year.v >= calls[i].valid_start_year
       /\ \A k \in 1..Len(before) :
            (IsNa(before[k].year) \/ before[k].year.v = 0) =>
              ~\E j \in 1..Len(after) : after[j].idx = before[k].idx

\* a table with a year 0 and a missing year was cleaned with a minimum
\* of 0, and a row was returned
C1_Witness ==
  \E i \in CleanYearCalls :
    /\ calls[i].valid_start_year = 0
    /\ \E k \in 1..Len(calls[i].arg.v) : calls[i].arg.v[k].year = FloatV(0)
    /\ Len(calls[i].ret.v) = 1
    /\ Len(calls[i].arg.v) = 2

=============================================================================
